---- MODULE Spec2Model ----
(***************************************************************************)
(* Root-finding solvers of "solutions of equations in one variable":       *)
(* bisection, fixed point, Newton-Raphson, secant, false position          *)
(* (equations-solver.cpp) and Steffensen (accelerated-solvers.cpp).        *)
(*                                                                         *)
(* One behaviour is one call of one solver.  A double is modelled as an    *)
(* exact rational <<n, d>> in lowest terms with d > 0, or as NaN, the one  *)
(* value that stands for every non-finite double (a quiet NaN or an        *)
(* infinity): it is what a division by zero produces, arithmetic on it     *)
(* stays non-finite and every ordered comparison with it is false.         *)
(* All quantities are counted in multiples of 5e-13, so that the two       *)
(* literals of the code are whole numbers: 1e-12 is 2 and 1e-10 is 200.    *)
(* The solvers are homogeneous in that unit, so nothing else changes.      *)
(*                                                                         *)
(* The user function f is opaque.  It is deterministic, so the values it   *)
(* has returned are remembered in fmap; a call at a new point may return   *)
(* any value of FRange.                                                    *)
(***************************************************************************)
EXTENDS Integers, FiniteSets, Sequences, TLC

\* ------------------------------------------------------------------ bounds

\* a call runs at most MaxIter loop bodies: maxIterations is drawn from
\* -1 .. MaxIter, and from -1 .. MaxIter + 1 where the counter starts at 2
MaxIter == 2

\* f returns whole numbers of magnitude at most FMax
FMax == 1

\* ------------------------------------------------------------- arithmetic

NaN == <<0, 0>>

IsNaN(x) == x[2] = 0

R(n) == <<n, 1>>

Zero == R(0)

AbsInt(n) == IF n < 0 THEN -n ELSE n

RECURSIVE GCD(_, _)
GCD(m, n) == IF n = 0 THEN m ELSE GCD(n, m % n)

Norm(n, d) ==
    IF d = 0 THEN NaN
    ELSE LET g == GCD(AbsInt(n), AbsInt(d))
             s == IF d < 0 THEN -1 ELSE 1
         IN  <<(s * n) \div g, (s * d) \div g>>

Add(x, y) == IF IsNaN(x) \/ IsNaN(y) THEN NaN
             ELSE Norm(x[1] * y[2] + y[1] * x[2], x[2] * y[2])

Sub(x, y) == IF IsNaN(x) \/ IsNaN(y) THEN NaN
             ELSE Norm(x[1] * y[2] - y[1] * x[2], x[2] * y[2])

Mul(x, y) == IF IsNaN(x) \/ IsNaN(y) THEN NaN
             ELSE Norm(x[1] * y[1], x[2] * y[2])

\* x / y; a zero divisor gives a non-finite double
Div(x, y) == IF IsNaN(x) \/ IsNaN(y) THEN NaN
             ELSE Norm(x[1] * y[2], x[2] * y[1])

Abs(x) == IF IsNaN(x) THEN NaN ELSE <<AbsInt(x[1]), x[2]>>

\* ordered comparisons: false as soon as an operand is not finite
Lt(x, y) == ~IsNaN(x) /\ ~IsNaN(y) /\ x[1] * y[2] < y[1] * x[2]

Gt(x, y) == Lt(y, x)

Le(x, y) == ~IsNaN(x) /\ ~IsNaN(y) /\ x[1] * y[2] <= y[1] * x[2]

\* x == y on doubles: a NaN equals nothing
Eq(x, y) == ~IsNaN(x) /\ ~IsNaN(y) /\ x = y

\* ------------------------------------------------------------ the function

FValues == {R(v) : v \in -FMax .. FMax}

\* what f may return at x: a finite value, or NaN where x itself is not finite
FRange(x) == IF IsNaN(x) THEN FValues \cup {NaN} ELSE FValues

\* One call f(x) with the calls so far m: the pairs <<value, calls after>>
Eval(m, x) ==
    IF x \in DOMAIN m THEN {<<m[x], m>>}
    ELSE {<<v, [y \in DOMAIN m \cup {x} |-> IF y = x THEN v ELSE m[y]]>> : v \in FRange(x)}

NoCalls == [y \in {} |-> Zero]

\* ------------------------------------------------------------------- state

Solvers == {"bisection", "fixed_point", "newton_raphson", "secant",
            "false_position", "steffensen"}

TwoPoint == {"bisection", "secant", "false_position"}

\* the solvers whose counter starts at 2
CountFromTwo == {"secant", "false_position"}

StartPoints == {R(0), R(1), R(3)}

Tolerances == {R(1), R(2)}

VARIABLES
    solver,         \* the solver called
    in0, in1,       \* leftBound/rightBound, p0/p1 or initialPoint as passed
    tolerance, maxIterations,
    pc,             \* "entry": before the first statement, "loop": at the loop test, "done"
    i,              \* the loop counter
    a, b, FA, FB,   \* bisection's locals
    p0, p1, q0, q1, \* the other solvers' locals
    fmap,           \* the calls of f made so far
    outcome,        \* what the call returned or threw
    evals,          \* calls of f made
    rows,           \* per-iteration trace rows written
    iters,          \* loop bodies started
    lastP,          \* p of the last loop body (NaN before the first)
    lastDen         \* the divisor of the last loop body (NaN before the first)

inputs == <<solver, in0, in1, tolerance, maxIterations>>

bisVars == <<a, b, FA, FB>>

secVars == <<p0, p1, q0, q1>>

vars == <<solver, in0, in1, tolerance, maxIterations, pc, i, a, b, FA, FB,
          p0, p1, q0, q1, fmap, outcome, evals, rows, iters, lastP, lastDen>>

Running == [type |-> "none", what |-> "none", count |-> 0, value |-> NaN]

Returned(p) == [type |-> "value", what |-> "none", count |-> 0, value |-> p]

\* throw std::invalid_argument(...)
InvalidArgument(what) ==
    [type |-> "invalid_argument", what |-> what, count |-> 0, value |-> NaN]

\* throw std::runtime_error(... + std::to_string(n) + ...)
RuntimeError(what, n) ==
    [type |-> "runtime_error", what |-> what, count |-> n, value |-> NaN]

Init ==
    /\ solver \in Solvers
    /\ in0 \in StartPoints
    /\ in1 \in (IF solver \in TwoPoint THEN StartPoints ELSE {in0})
    /\ tolerance \in Tolerances
    /\ maxIterations \in -1 .. (IF solver \in CountFromTwo THEN MaxIter + 1 ELSE MaxIter)
    /\ pc = "entry"
    /\ i = 0
    /\ a = NaN /\ b = NaN /\ FA = NaN /\ FB = NaN
    /\ p0 = NaN /\ p1 = NaN /\ q0 = NaN /\ q1 = NaN
    /\ fmap = NoCalls
    /\ outcome = Running
    /\ evals = 0 /\ rows = 0 /\ iters = 0
    /\ lastP = NaN /\ lastDen = NaN

\* a loop test that lets one more body run
LoopCond_OffByOne(k, n) == k <= n + 1

\* the loop test i <= maxIterations shared by the six loops
LoopCond(k, n) == k <= n

\* every counter starting at 1
FirstIndex_AlwaysOne(s) == 1

\* the counter's first value: int i = 2 in secant and false position, 1 elsewhere
FirstIndex(s) == IF s \in CountFromTwo THEN 2 ELSE 1

\* ---------------------------------------------------------------- bisection

\* a check that also rejects a zero product
BisectionRejects_NonStrict(fa, fb) == ~Lt(Mul(fa, fb), Zero)

\* FA * FB > 0: the endpoints are rejected
BisectionRejects(fa, fb) == Gt(Mul(fa, fb), Zero)

\* the bound of the other sign replaced
BisectionMovesLeft_Flipped(fa, fp) == Lt(Mul(fa, fp), Zero)

\* FA * FP > 0: the left bound is the one replaced
BisectionMovesLeft(fa, fp) == Gt(Mul(fa, fp), Zero)

BisectionEntry ==
    /\ solver = "bisection" /\ pc = "entry"
    /\ \E ra \in Eval(fmap, in0) : \E rb \in Eval(ra[2], in1) :
         /\ a' = in0 /\ b' = in1
         /\ FA' = ra[1] /\ FB' = rb[1]
         /\ fmap' = rb[2]
         /\ evals' = evals + 2
         /\ IF BisectionRejects(ra[1], rb[1])
            THEN /\ pc' = "done"
                 /\ outcome' = InvalidArgument("opposite_signs")
                 /\ i' = i
            ELSE /\ pc' = "loop"
                 /\ outcome' = outcome
                 /\ i' = FirstIndex(solver)
    /\ UNCHANGED <<inputs, secVars, rows, iters, lastP, lastDen>>

BisectionIter ==
    /\ solver = "bisection" /\ pc = "loop"
    /\ LoopCond(i, maxIterations)
    /\ LET p == Add(a, Div(Sub(b, a), R(2)))
       IN  \E rp \in Eval(fmap, p) :
             LET FP == rp[1]
             IN  /\ fmap' = rp[2]
                 /\ evals' = evals + 1
                 /\ rows' = rows + 1
                 /\ iters' = iters + 1
                 /\ lastP' = p
                 /\ IF Lt(Abs(FP), tolerance)
                    THEN /\ pc' = "done"
                         /\ outcome' = Returned(p)
                         /\ UNCHANGED <<i, a, b, FA>>
                    ELSE /\ pc' = "loop"
                         /\ outcome' = outcome
                         /\ i' = i + 1
                         /\ IF BisectionMovesLeft(FA, FP)
                            THEN a' = p /\ FA' = FP /\ b' = b
                            ELSE b' = p /\ a' = a /\ FA' = FA
    /\ UNCHANGED <<inputs, FB, secVars, lastDen>>

BisectionExhausted ==
    /\ solver = "bisection" /\ pc = "loop"
    /\ ~LoopCond(i, maxIterations)
    /\ pc' = "done"
    /\ outcome' = RuntimeError("no_solution", maxIterations)
    /\ UNCHANGED <<inputs, i, bisVars, secVars, fmap, evals, rows, iters, lastP, lastDen>>

\* -------------------------------------------------------------- fixed point

\* a trace row written before the tolerance test
FixedPointTraced_Always(converged) == TRUE

\* the trace row of a loop body is written after the tolerance test returned
FixedPointTraced(converged) == ~converged

FixedPointEntry ==
    /\ solver = "fixed_point" /\ pc = "entry"
    /\ i' = FirstIndex(solver)
    /\ p0' = in0
    /\ pc' = "loop"
    /\ UNCHANGED <<inputs, bisVars, p1, q0, q1, fmap, outcome, evals, rows, iters,
                   lastP, lastDen>>

FixedPointIter ==
    /\ solver = "fixed_point" /\ pc = "loop"
    /\ LoopCond(i, maxIterations)
    /\ \E rp \in Eval(fmap, p0) :
         LET p == rp[1]
             converged == Lt(Abs(Sub(p, p0)), tolerance)
         IN  /\ fmap' = rp[2]
             /\ evals' = evals + 1
             /\ iters' = iters + 1
             /\ lastP' = p
             /\ rows' = rows + (IF FixedPointTraced(converged) THEN 1 ELSE 0)
             /\ IF converged
                THEN /\ pc' = "done"
                     /\ outcome' = Returned(p)
                     /\ UNCHANGED <<i, p0>>
                ELSE /\ pc' = "loop"
                     /\ outcome' = outcome
                     /\ i' = i + 1
                     /\ p0' = p
    /\ UNCHANGED <<inputs, bisVars, p1, q0, q1, lastDen>>

FixedPointExhausted ==
    /\ solver = "fixed_point" /\ pc = "loop"
    /\ ~LoopCond(i, maxIterations)
    /\ pc' = "done"
    /\ outcome' = RuntimeError("no_solution", maxIterations)
    /\ UNCHANGED <<inputs, i, bisVars, secVars, fmap, evals, rows, iters, lastP, lastDen>>

\* ----------------------------------------------------------- Newton-Raphson

\* the default step h = 1e-10 of numerical_derivative
H == R(200)

\* (f(x + h) - f(x - h)) / (2 * h), given the two values of f
NumericalDerivative(fPlus, fMinus, h) == Div(Sub(fPlus, fMinus), Mul(R(2), h))

NewtonEntry ==
    /\ solver = "newton_raphson" /\ pc = "entry"
    /\ i' = FirstIndex(solver)
    /\ p0' = in0
    /\ pc' = "loop"
    /\ UNCHANGED <<inputs, bisVars, p1, q0, q1, fmap, outcome, evals, rows, iters,
                   lastP, lastDen>>

NewtonIter ==
    /\ solver = "newton_raphson" /\ pc = "loop"
    /\ LoopCond(i, maxIterations)
    /\ \E r0 \in Eval(fmap, p0) :
       \E rPlus \in Eval(r0[2], Add(p0, H)) :
       \E rMinus \in Eval(rPlus[2], Sub(p0, H)) :
         LET fp == r0[1]
             fPrimeP0 == NumericalDerivative(rPlus[1], rMinus[1], H)
             p == Sub(p0, Div(fp, fPrimeP0))
         IN  /\ fmap' = rMinus[2]
             /\ evals' = evals + 3
             /\ iters' = iters + 1
             /\ lastDen' = fPrimeP0
             /\ IF Eq(fPrimeP0, Zero)
                THEN /\ pc' = "done"
                     /\ outcome' = InvalidArgument("derivative_zero")
                     /\ UNCHANGED <<i, p0, rows, lastP>>
                ELSE /\ rows' = rows + 1
                     /\ lastP' = p
                     /\ IF Lt(Abs(Sub(p, p0)), tolerance)
                        THEN /\ pc' = "done"
                             /\ outcome' = Returned(p)
                             /\ UNCHANGED <<i, p0>>
                        ELSE /\ pc' = "loop"
                             /\ outcome' = outcome
                             /\ p0' = p
                             /\ i' = i + 1
    /\ UNCHANGED <<inputs, bisVars, p1, q0, q1>>

NewtonExhausted ==
    /\ solver = "newton_raphson" /\ pc = "loop"
    /\ ~LoopCond(i, maxIterations)
    /\ pc' = "done"
    /\ outcome' = RuntimeError("no_solution", maxIterations)
    /\ UNCHANGED <<inputs, i, bisVars, secVars, fmap, evals, rows, iters, lastP, lastDen>>

\* ------------------------------------------------------------------- secant

\* p1 - q1 * (p1 - p0) / (q1 - q0), the update of secant and false position
SecantPoint(x0, x1, y0, y1) == Sub(x1, Div(Mul(y1, Sub(x1, x0)), Sub(y1, y0)))

\* a tolerance test against the newer estimate
SecantConverged_Newer(p, x0, x1, tol) == Lt(Abs(Sub(p, x1)), tol)

\* secant's tolerance test on the new p with the retained x0 (older), x1 (newer)
SecantConverged(p, x0, x1, tol) == Lt(Abs(Sub(p, x0)), tol)

SecantEntry ==
    /\ solver = "secant" /\ pc = "entry"
    /\ \E r0 \in Eval(fmap, in0) : \E r1 \in Eval(r0[2], in1) :
         /\ p0' = in0 /\ p1' = in1
         /\ q0' = r0[1] /\ q1' = r1[1]
         /\ fmap' = r1[2]
    /\ evals' = evals + 2
    /\ i' = FirstIndex(solver)
    /\ pc' = "loop"
    /\ UNCHANGED <<inputs, bisVars, outcome, rows, iters, lastP, lastDen>>

SecantIter ==
    /\ solver = "secant" /\ pc = "loop"
    /\ LoopCond(i, maxIterations)
    /\ LET p == SecantPoint(p0, p1, q0, q1)
       IN  /\ iters' = iters + 1
           /\ lastP' = p
           /\ lastDen' = Sub(q1, q0)
           /\ IF SecantConverged(p, p0, p1, tolerance)
              THEN /\ pc' = "done"
                   /\ outcome' = Returned(p)
                   /\ UNCHANGED <<i, secVars, fmap, evals, rows>>
              ELSE \E rp \in Eval(fmap, p) :
                     /\ rows' = rows + 1
                     /\ i' = i + 1
                     /\ p0' = p1 /\ q0' = q1
                     /\ p1' = p /\ q1' = rp[1]
                     /\ fmap' = rp[2]
                     /\ evals' = evals + 1
                     /\ pc' = "loop"
                     /\ outcome' = outcome
    /\ UNCHANGED <<inputs, bisVars>>

SecantExhausted ==
    /\ solver = "secant" /\ pc = "loop"
    /\ ~LoopCond(i, maxIterations)
    /\ pc' = "done"
    /\ outcome' = RuntimeError("no_solution", maxIterations)
    /\ UNCHANGED <<inputs, i, bisVars, secVars, fmap, evals, rows, iters, lastP, lastDen>>

\* ----------------------------------------------------------- false position

\* q0 * q1 > 0: the initial points are rejected
FalsePositionRejects(y0, y1) == Gt(Mul(y0, y1), Zero)

\* false position's tolerance test on the new p with the retained x0, x1
FalsePositionConverged(p, x0, x1, tol) == Lt(Abs(Sub(p, x1)), tol)

\* q * q1 < 0: (p0, q0) is replaced by (p1, q1)
FalsePositionShifts(q, y1) == Lt(Mul(q, y1), Zero)

FalsePositionEntry ==
    /\ solver = "false_position" /\ pc = "entry"
    /\ \E r0 \in Eval(fmap, in0) : \E r1 \in Eval(r0[2], in1) :
         /\ p0' = in0 /\ p1' = in1
         /\ q0' = r0[1] /\ q1' = r1[1]
         /\ fmap' = r1[2]
         /\ IF FalsePositionRejects(r0[1], r1[1])
            THEN /\ pc' = "done"
                 /\ outcome' = InvalidArgument("opposite_signs")
            ELSE /\ pc' = "loop"
                 /\ outcome' = outcome
    /\ evals' = evals + 2
    /\ i' = FirstIndex(solver)
    /\ UNCHANGED <<inputs, bisVars, rows, iters, lastP, lastDen>>

FalsePositionIter ==
    /\ solver = "false_position" /\ pc = "loop"
    /\ LoopCond(i, maxIterations)
    /\ LET p == SecantPoint(p0, p1, q0, q1)
       IN  /\ iters' = iters + 1
           /\ rows' = rows + 1
           /\ lastP' = p
           /\ lastDen' = Sub(q1, q0)
           /\ IF FalsePositionConverged(p, p0, p1, tolerance)
              THEN /\ pc' = "done"
                   /\ outcome' = Returned(p)
                   /\ UNCHANGED <<i, secVars, fmap, evals>>
              ELSE \E rp \in Eval(fmap, p) :
                     LET q == rp[1]
                     IN  /\ fmap' = rp[2]
                         /\ evals' = evals + 1
                         /\ IF FalsePositionShifts(q, q1)
                            THEN p0' = p1 /\ q0' = q1
                            ELSE p0' = p0 /\ q0' = q0
                         /\ p1' = p /\ q1' = q
                         /\ i' = i + 1
                         /\ pc' = "loop"
                         /\ outcome' = outcome
    /\ UNCHANGED <<inputs, bisVars>>

FalsePositionExhausted ==
    /\ solver = "false_position" /\ pc = "loop"
    /\ ~LoopCond(i, maxIterations)
    /\ pc' = "done"
    /\ outcome' = RuntimeError("no_solution", maxIterations)
    /\ UNCHANGED <<inputs, i, bisVars, secVars, fmap, evals, rows, iters, lastP, lastDen>>

\* --------------------------------------------------------------- Steffensen

\* the near-zero threshold 1e-12 on the denominator
NearZero == R(2)

\* std::abs(denominator) < 1e-12
DenominatorNearZero(den) == Lt(Abs(den), NearZero)

SteffensenEntry ==
    /\ solver = "steffensen" /\ pc = "entry"
    /\ i' = FirstIndex(solver)
    /\ p0' = in0
    /\ pc' = "loop"
    /\ UNCHANGED <<inputs, bisVars, p1, q0, q1, fmap, outcome, evals, rows, iters,
                   lastP, lastDen>>

SteffensenIter ==
    /\ solver = "steffensen" /\ pc = "loop"
    /\ LoopCond(i, maxIterations)
    /\ \E r1 \in Eval(fmap, p0) : \E r2 \in Eval(r1[2], r1[1]) :
         LET s1 == r1[1]
             s2 == r2[1]
             denominator == Add(Sub(s2, Mul(R(2), s1)), p0)
             p == Sub(p0, Div(Mul(Sub(s1, p0), Sub(s1, p0)), denominator))
         IN  /\ iters' = iters + 1
             /\ lastDen' = denominator
             /\ IF DenominatorNearZero(denominator)
                THEN /\ pc' = "done"
                     /\ outcome' = RuntimeError("denominator_near_zero", i)
                     /\ fmap' = r2[2]
                     /\ evals' = evals + 2
                     /\ UNCHANGED <<i, p0, rows, lastP>>
                ELSE \E rp \in Eval(r2[2], p) :
                       /\ fmap' = rp[2]
                       /\ evals' = evals + 3
                       /\ rows' = rows + 1
                       /\ lastP' = p
                       /\ IF Lt(Abs(Sub(p, p0)), tolerance)
                          THEN /\ pc' = "done"
                               /\ outcome' = Returned(p)
                               /\ UNCHANGED <<i, p0>>
                          ELSE /\ pc' = "loop"
                               /\ outcome' = outcome
                               /\ p0' = p
                               /\ i' = i + 1
    /\ UNCHANGED <<inputs, bisVars, p1, q0, q1>>

SteffensenExhausted ==
    /\ solver = "steffensen" /\ pc = "loop"
    /\ ~LoopCond(i, maxIterations)
    /\ pc' = "done"
    /\ outcome' = RuntimeError("no_solution", maxIterations)
    /\ UNCHANGED <<inputs, i, bisVars, secVars, fmap, evals, rows, iters, lastP, lastDen>>

\* ------------------------------------------------------------ specification

Next ==
    \/ BisectionEntry
    \/ BisectionIter
    \/ BisectionExhausted
    \/ FixedPointEntry
    \/ FixedPointIter
    \/ FixedPointExhausted
    \/ NewtonEntry
    \/ NewtonIter
    \/ NewtonExhausted
    \/ SecantEntry
    \/ SecantIter
    \/ SecantExhausted
    \/ FalsePositionEntry
    \/ FalsePositionIter
    \/ FalsePositionExhausted
    \/ SteffensenEntry
    \/ SteffensenIter
    \/ SteffensenExhausted

Spec == Init /\ [][Next]_vars

\* ------------------------------------------------------------------- claims

Bracketing == {"bisection", "false_position"}

EntryAccepted == pc # "entry" /\ outcome.what # "opposite_signs"

C2_BracketInvariant ==
    (solver = "bisection" /\ EntryAccepted) =>
        /\ a \in DOMAIN fmap /\ b \in DOMAIN fmap
        /\ Le(Mul(fmap[a], fmap[b]), Zero)
        /\ FA = fmap[a]

C2_Witness ==
    /\ solver = "bisection" /\ pc = "loop" /\ iters >= 2
    /\ a # in0 /\ b # in1

\* C3: in false position, once the points are accepted, f(p0) * f(p1) <= 0
\* holds after every update, and q0 = f(p0), q1 = f(p1) at every loop test.
C3_FalsePositionInvariant ==
    (solver = "false_position" /\ EntryAccepted) =>
        /\ p0 \in DOMAIN fmap /\ p1 \in DOMAIN fmap
        /\ Le(Mul(fmap[p0], fmap[p1]), Zero)
        /\ Eq(q0, fmap[p0]) /\ Eq(q1, fmap[p1])

\* C4 as stated: with maxIterations 0 or 1 every solver whose entry check passed
\* ends in the "no solution" runtime_error and returns no value.
C4_ZeroOrOneAlwaysFails ==
    (pc = "done" /\ maxIterations \in {0, 1} /\ outcome.what # "opposite_signs") =>
        outcome.what = "no_solution"

\* C4 amended: with maxIterations = 0 every solver, and with maxIterations = 1
\* secant and false position, ends in the "no solution" runtime_error without
\* running a loop body; with maxIterations = 1 the other four run exactly one
\* loop body before they end.
C4_Amended ==
    (pc = "done" /\ outcome.what # "opposite_signs") =>
        /\ (maxIterations = 0 \/ (maxIterations = 1 /\ solver \in {"secant", "false_position"}))
             => /\ outcome.type = "runtime_error"
                /\ outcome.what = "no_solution"
                /\ iters = 0
        /\ (maxIterations = 1 /\ solver \notin {"secant", "false_position"})
             => iters = 1

C4_Witness ==
    /\ solver = "secant" /\ maxIterations = 1
    /\ pc = "done" /\ outcome.what = "no_solution"

\* C5: the count carried by the "no solution" error is the number of loop
\* bodies the call ran.
C5_CountIsIterationsRun ==
    (pc = "done" /\ outcome.what = "no_solution") => outcome.count = iters

\* C6: in Steffensen, a loop body whose |denominator| is below the threshold ends
\* the call, without a value, in an error whose kind differs from the kind thrown
\* when maxIterations is exhausted; otherwise that body raises no such error.
C6_InstabilityIsDistinct ==
    (solver = "steffensen" /\ iters >= 1) =>
        IF Lt(Abs(lastDen), NearZero)
        THEN /\ pc = "done"
             /\ outcome.type \notin {"none", "value"}
             /\ outcome.type # RuntimeError("no_solution", maxIterations).type
        ELSE outcome.what # "denominator_near_zero"

\* C7 as stated: for maxIterations >= 0 a call evaluates f at most maxIterations
\* times (bisection, fixed point, Newton-Raphson) or 3 * maxIterations times
\* (secant, false position, Steffensen).
C7_EvaluationBound ==
    maxIterations >= 0 =>
        evals <= (IF solver \in {"bisection", "fixed_point", "newton_raphson"}
                  THEN maxIterations ELSE 3 * maxIterations)

\* C7 amended: for maxIterations >= 0 a call evaluates f at most maxIterations
\* times in fixed point, maxIterations + 2 times in bisection, 3 * maxIterations
\* times in Newton-Raphson and Steffensen, and 2 + max(maxIterations - 1, 0)
\* times in secant and false position.
C7_Amended ==
    maxIterations >= 0 =>
        evals <= CASE solver = "fixed_point" -> maxIterations
                   [] solver = "bisection" -> maxIterations + 2
                   [] solver \in {"newton_raphson", "steffensen"} -> 3 * maxIterations
                   [] solver \in {"secant", "false_position"} ->
                        2 + (IF maxIterations >= 1 THEN maxIterations - 1 ELSE 0)

C7_Witness ==
    /\ solver = "newton_raphson" /\ maxIterations = 2
    /\ pc = "done" /\ evals = 6

C9_OneRowPerIteration == rows = iters

\* C9 amended: the trace rows written equal the loop bodies started, less one
\* when fixed point or secant returned a value (the body that meets the
\* tolerance returns before its row) and less one when Newton-Raphson or
\* Steffensen threw the zero-derivative or near-zero-denominator error (the
\* body throws before its row); bisection and false position write one row
\* for every body.
C9_Amended ==
    rows = iters -
        (IF \/ (solver \in {"fixed_point", "secant"} /\ outcome.type = "value")
            \/ outcome.what \in {"derivative_zero", "denominator_near_zero"}
         THEN 1 ELSE 0)

C9_Witness ==
    /\ solver = "fixed_point" /\ outcome.type = "value"
    /\ iters = 2 /\ rows = 1

\* C10: in false position, with p0 # p1 accepted at entry, the divisor q1 - q0
\* is non-zero in every loop body that computes p.
C10_DivisorNonZero ==
    (solver = "false_position" /\ iters >= 1 /\ in0 # in1) => lastDen # Zero

====
